---- MODULE Spec2Model ----
(***************************************************************************)
(* A model of src/music.py (Vericu Tuning YouTube Downloader): the         *)
(* download-and-postprocess pipeline.                                      *)
(*                                                                         *)
(*   Spec        one DownloadWorker.run, its item workers, the trim tasks  *)
(*               on general_executor, the download_finished handler and    *)
(*               the MetadataProcessor it starts.                          *)
(*   SpecLive    Spec with every thread taking the steps it can take.      *)
(*   SpecSilence remove_silence on one file: parse of the diagnostic       *)
(*               stream, the trim invocation, the swap on the file system. *)
(*   SpecCover   lookup_improved_cover_art: provider A, then provider B.   *)
(*   SpecTransfer one transfer, its progress callbacks and cancel().        *)
(*   SpecName    revamped_parse_filename and generate_tidy_filename.       *)
(*   SpecOptions the download options of process_single_url.               *)
(*   SpecTag     the tag-write of the files of a batch.                    *)
(*   SpecFfmpeg  ensure_ffmpeg called by several threads.                  *)
(*   SpecPaths   the paths of the entries of one collection.               *)
(*                                                                         *)
(* Times are in tenths of a second.                                        *)
(***************************************************************************)
EXTENDS Integers, Sequences, FiniteSets, TLC

\* ---------------------------------------------------------------- bounds
\* identifiers of a run, entries of a collection, items of a run, threadCount
MaxUrls == 2
MaxEntries == 3
MaxItems == 3
MaxThreads == 2
\* bytes of a transfer, progress callbacks of a transfer
MaxBytes == 3
MaxCallbacks == 3
\* lines of the diagnostic stream, largest silence_end value (tenths of a second)
MaxLines == 3
MaxTime == 4
\* entries of provider B's search result
MaxResults == 2
MaxPieces == 4
MaxTagged == 2
MaxCallers == 2
MaxCalls == 2
MaxSameBatch == 3
MaxTitles == 2

\* ------------------------------------------------------- program constants
\* general_executor = ThreadPoolExecutor(max_workers=12)
GeneralWorkers == 12
\* new_start = max(silence_end_time - 0.3, 0), in tenths of a second
PreserveTenths == 3
\* a thumbnail is square when abs(width - height) < 10
SquareTolerance == 10

None == "None"

VARIABLES
    \* DownloadWorker.__init__
    urls, mode, thread_count, silence_removal,
    \* what ensure_ffmpeg sees: ffmpeg on PATH, ffmpeg.exe in the working
    \* directory; and the module global it caches
    sysTool, bundled, FFMPEG_PATH,
    \* DownloadWorker.run
    pc, idx, fanout, items, results, finishedMsg, emitted,
    \* the trim tasks held by general_executor, by file
    trims,
    \* audio files in the output folder, by file id
    folder,
    \* observable events, counted
    resolveCount, resolveFails, created, started, succeeded, fetchFails,
    postFails, errLogs, toolRaised,
    \* download_finished and MetadataProcessor
    handled, guiAudio, metaRequested, metaStarted, metaPc, metaFiles, metaNext,
    \* the kinds of network calls and external processes that were executed on
    \* the thread of DownloadWorker.run or of MetadataProcessor.run itself
    runThreadCalls,
    \* SpecTransfer: one transfer of _download_and_process and its progress
    \* callbacks; cancel_flag of its DownloadWorker
    tPc, cancel_flag, tErr, tCalls, tAfterCancel, tLogPct, tProgressPct,
    \* the dictionary of the latest callback and what that callback reported
    tD, tReported,
    \* SpecSilence: one call of remove_silence; the two paths it touches
    sPc, stream, staleTemp, fs, silence_end_time, new_start, trimResult,
    \* SpecCover: one call of lookup_improved_cover_art; what the two
    \* providers answer
    cPc, itunes, youtube, cResult, cYoutubeCalled,
    \* SpecName: a raw file name, its parse, the formatted name, its re-parse
    nPc, raw, info, tidy, info2,
    \* SpecOptions: the options process_single_url builds from the worker's
    \* fields, the copy an item transfers with, the files that exist
    oPc, oMode, browser, cookies, cookieFiles, ydl_opts, ydl_opts_local,
    \* SpecTag: the tag-write of each file of a batch (audio:
    \* process_metadata_file_ffmpeg, video: the branch of
    \* _download_and_process), the paths it touches, what is reported
    gKind, gPc, gSame, gfs, tagFailed, gResult, gLog, gCover, gRaised,
    \* SpecFfmpeg: threads of one process inside ensure_ffmpeg; the module
    \* global as they share it (0: None, -1: "ffmpeg", n > 0: ffmpeg.exe in the
    \* n-th temporary directory)
    eSys, eBundled, eGlobal, ePc, eLocal, eRet, eCalls, eDirs, eCopies,
    \* SpecPaths: the entries of one collection, the title of each, which
    \* entries wrote to, trimmed at and were reported under each output path
    entryTitle, entryPc, pSilence, pathWriters, pathTrimmers, pathResults

cfgVars == <<urls, mode, thread_count, silence_removal, sysTool, bundled>>
countVars == <<resolveCount, resolveFails, created, started, succeeded,
               fetchFails, postFails, errLogs, toolRaised>>
metaVars == <<handled, guiAudio, metaRequested, metaStarted, metaPc, metaFiles,
              metaNext>>
runVars == <<cfgVars, FFMPEG_PATH, pc, idx, fanout, items, results, finishedMsg, emitted,
             trims, folder, countVars, metaVars, runThreadCalls>>

xferVars == <<tPc, cancel_flag, tErr, tCalls, tAfterCancel, tLogPct,
              tProgressPct, tD, tReported>>
silVars == <<sPc, stream, staleTemp, fs, silence_end_time, new_start,
             trimResult>>
covVars == <<cPc, itunes, youtube, cResult, cYoutubeCalled>>

\* What an action of Spec leaves alone.
nameVars == <<nPc, raw, info, tidy, info2>>

\* the parts added to the module later than the first four
optVars == <<oPc, oMode, browser, cookies, cookieFiles, ydl_opts,
             ydl_opts_local>>

tagVars == <<gKind, gPc, gSame, gfs, tagFailed, gResult, gLog, gCover, gRaised>>

ensVars == <<eSys, eBundled, eGlobal, ePc, eLocal, eRet, eCalls, eDirs, eCopies>>

pathVars == <<entryTitle, entryPc, pSilence, pathWriters, pathTrimmers,
              pathResults>>

moreVars == <<nameVars, optVars, tagVars, ensVars, pathVars>>

parts == <<xferVars, silVars, covVars, moreVars>>

\* what an action of Spec that makes no call on a run thread leaves alone
others == <<parts, runThreadCalls>>

vars == <<runVars, xferVars, silVars, covVars, moreVars>>

\* ------------------------------------------------------------ ensure_ffmpeg

\* setup_ffmpeg_embedded: mkdtemp, then copy ffmpeg.exe if it exists; a missing
\* ffmpeg.exe is logged and the destination path is returned all the same.
setup_ffmpeg_embedded(hasBundled, canWrite) ==
    IF ~canWrite
    THEN [raised |-> TRUE, path |-> None]
    ELSE [raised |-> FALSE, path |-> "tmp/ffmpeg.exe"]

\* ensure_ffmpeg: "ffmpeg -version" succeeds, else the cached path, else the
\* embedded copy.
ensure_ffmpeg(hasSys, hasBundled, canWrite, cached) ==
    IF hasSys
    THEN [raised |-> FALSE, path |-> "ffmpeg"]
    ELSE IF cached = None
         THEN setup_ffmpeg_embedded(hasBundled, canWrite)
         ELSE [raised |-> FALSE, path |-> cached]

\* Whether an invocation of the resolved path can start a process.
ToolUsable ==
    \/ FFMPEG_PATH = "ffmpeg" /\ sysTool
    \/ FFMPEG_PATH = "tmp/ffmpeg.exe" /\ bundled

\* ------------------------------------------------------------------ helpers

\* What finished_signal carries: a sentinel, or the basenames joined by newlines.
Sentinels == {"Error", "No files."}
NotEmitted == [kind |-> "none", names |-> <<>>]
Sentinel(s) == [kind |-> s, names |-> <<>>]
Joined(names) == [kind |-> "files", names |-> names]
NoPath == [kind |-> "none", id |-> 0]

FileId(u, i) == (u - 1) * MaxEntries + i

\* os.path.basename of the path _download_and_process returns: the .mp3 of the
\* download in audio mode, the NamedTemporaryFile of the tag-write in video mode.
Basename(p) == <<p.kind, p.id>>

RECURSIVE SortedSeq(_)
SortedSeq(S) ==
    IF S = {} THEN <<>>
    ELSE LET m == CHOOSE x \in S : \A y \in S : x <= y
         IN <<m>> \o SortedSeq(S \ {m})

Running == {"downloading", "trimwait", "videotag"}
Terminal == {"done", "failed"}

InFlight == Cardinality({i \in DOMAIN items : items[i].st \in Running})

NewItem == [st |-> "queued", err |-> None, path |-> NoPath]

\* ThreadPoolExecutor(max_workers=T): a queued task starts when a worker is free.
PoolHasFreeWorkerAny(n, T) == TRUE
PoolHasFreeWorker(n, T) == n < T

\* ------------------------------------------------------------------- Init

\* An audio file that is in the output folder before the run (the files of the
\* run have the ids FileId gives them, from 1 on).
PreExistingFile == 0

RunInit ==
    /\ urls \in {[k \in 1..n |-> k] : n \in 0..MaxUrls}
    /\ mode \in {"audio", "video"}
    /\ thread_count \in 1..MaxThreads
    /\ silence_removal \in BOOLEAN
    /\ sysTool \in BOOLEAN
    /\ bundled \in BOOLEAN
    /\ FFMPEG_PATH = None
    /\ pc = "start"
    /\ idx = 0
    /\ fanout = FALSE
    /\ items = <<>>
    /\ results = <<>>
    /\ finishedMsg = NotEmitted
    /\ emitted = 0
    /\ trims = <<>>
    /\ folder \in SUBSET {PreExistingFile}
    /\ resolveCount = 0
    /\ resolveFails = 0
    /\ created = 0
    /\ started = 0
    /\ succeeded = {}
    /\ fetchFails = 0
    /\ postFails = 0
    /\ errLogs = 0
    /\ toolRaised = FALSE
    /\ handled = FALSE
    /\ guiAudio = FALSE
    /\ metaRequested = FALSE
    /\ metaStarted = FALSE
    /\ metaPc = "idle"
    /\ metaFiles = <<>>
    /\ metaNext = 0
    /\ runThreadCalls = {}

\* The state of a part of the model that a specification does not exercise.
XferIdle ==
    /\ tPc = "idle"
    /\ cancel_flag = FALSE
    /\ tErr = None
    /\ tCalls = 0
    /\ tAfterCancel = FALSE
    /\ tLogPct = <<>>
    /\ tProgressPct = <<>>
    /\ tD = <<>>
    /\ tReported = <<>>

SilIdle ==
    /\ sPc = "idle"
    /\ stream = <<>>
    /\ staleTemp = FALSE
    /\ fs = <<>>
    /\ silence_end_time = <<>>
    /\ new_start = <<>>
    /\ trimResult = "none"

CovIdle ==
    /\ cPc = "idle"
    /\ itunes = <<>>
    /\ youtube = <<>>
    /\ cResult = <<>>
    /\ cYoutubeCalled = FALSE

RunIdle ==
    /\ urls = <<>>
    /\ mode = "audio"
    /\ thread_count = 1
    /\ silence_removal = FALSE
    /\ sysTool = TRUE
    /\ bundled = FALSE
    /\ FFMPEG_PATH = None
    /\ pc = "idle"
    /\ idx = 0
    /\ fanout = FALSE
    /\ items = <<>>
    /\ results = <<>>
    /\ finishedMsg = NotEmitted
    /\ emitted = 0
    /\ trims = <<>>
    /\ folder = {}
    /\ resolveCount = 0
    /\ resolveFails = 0
    /\ created = 0
    /\ started = 0
    /\ succeeded = {}
    /\ fetchFails = 0
    /\ postFails = 0
    /\ errLogs = 0
    /\ toolRaised = FALSE
    /\ handled = FALSE
    /\ guiAudio = FALSE
    /\ metaRequested = FALSE
    /\ metaStarted = FALSE
    /\ metaPc = "idle"
    /\ metaFiles = <<>>
    /\ metaNext = 0
    /\ runThreadCalls = {}

NameIdle ==
    /\ nPc = "idle"
    /\ raw = <<>>
    /\ info = <<>>
    /\ tidy = <<>>
    /\ info2 = <<>>

OptIdle ==
    /\ oPc = "idle"
    /\ oMode = <<>>
    /\ browser = <<>>
    /\ cookies = ""
    /\ cookieFiles = {}
    /\ ydl_opts = <<>>
    /\ ydl_opts_local = <<>>

TagIdle ==
    /\ gKind = "idle"
    /\ gPc = <<>>
    /\ gSame = <<>>
    /\ gfs = <<>>
    /\ tagFailed = <<>>
    /\ gResult = <<>>
    /\ gLog = <<>>
    /\ gCover = <<>>
    /\ gRaised = <<>>

EnsIdle ==
    /\ eSys = FALSE
    /\ eBundled = FALSE
    /\ eGlobal = 0
    /\ ePc = <<>>
    /\ eLocal = <<>>
    /\ eRet = <<>>
    /\ eCalls = <<>>
    /\ eDirs = 0
    /\ eCopies = 0

PathIdle ==
    /\ entryTitle = <<>>
    /\ entryPc = <<>>
    /\ pSilence = FALSE
    /\ pathWriters = <<>>
    /\ pathTrimmers = <<>>
    /\ pathResults = <<>>

MoreIdle == NameIdle /\ OptIdle /\ TagIdle /\ EnsIdle /\ PathIdle

Init == RunInit /\ XferIdle /\ SilIdle /\ CovIdle /\ MoreIdle

\* ------------------------------------------------------ DownloadWorker.run

\* Where run is after the except clause of ensure_ffmpeg emitted "Error":
\* it returns.
AfterToolErrorGoesOn == "loop"
AfterToolError == "finished"

\* run, up to the loop: ensure_ffmpeg (whose mkdtemp and copy succeed or
\* raise), then the empty-list check.
run_start ==
    /\ pc = "start"
    /\ runThreadCalls' = runThreadCalls \cup {"probe"}
    /\ \E canWrite \in BOOLEAN :
         LET r == ensure_ffmpeg(sysTool, bundled, canWrite, FFMPEG_PATH)
         IN IF r.raised
            THEN /\ toolRaised' = TRUE
                 /\ errLogs' = errLogs + 1
                 /\ finishedMsg' = Sentinel("Error")
                 /\ emitted' = emitted + 1
                 /\ pc' = AfterToolError
                 /\ UNCHANGED <<FFMPEG_PATH, idx>>
            ELSE /\ FFMPEG_PATH' = r.path
                 /\ UNCHANGED <<toolRaised, errLogs>>
                 /\ IF urls = <<>>
                    THEN /\ finishedMsg' = Sentinel("No files.")
                         /\ emitted' = emitted + 1
                         /\ pc' = "finished"
                         /\ UNCHANGED idx
                    ELSE /\ pc' = "loop"
                         /\ idx' = 1
                         /\ UNCHANGED <<finishedMsg, emitted>>
    /\ UNCHANGED <<parts, cfgVars, fanout, items, results, trims, folder,
                   resolveCount, resolveFails, created, started, succeeded, fetchFails,
                   postFails, metaVars>>

\* run's loop: the except clause logs the error and the loop goes on with the
\* next identifier.
AfterFailureAborts(i) == Len(urls) + 1
AfterFailure(i) == i + 1

\* process_single_url up to the dispatch: extract_info(url, download=False)
\* raises (caught and logged in run), or yields one item, or a collection.
resolve_raises ==
    /\ pc = "loop"
    /\ runThreadCalls' = runThreadCalls \cup {"resolve"}
    /\ idx <= Len(urls)
    /\ resolveCount' = resolveCount + 1
    /\ resolveFails' = resolveFails + 1
    /\ fetchFails' = fetchFails + 1
    /\ errLogs' = errLogs + 1
    /\ idx' = AfterFailure(idx)
    /\ UNCHANGED <<parts, cfgVars, FFMPEG_PATH, pc, fanout, items, results,
                   finishedMsg, emitted, trims, folder, created, started, succeeded,
                   postFails, toolRaised, metaVars>>

resolve_single ==
    /\ pc = "loop"
    /\ runThreadCalls' = runThreadCalls \cup {"resolve"}
    /\ idx <= Len(urls)
    /\ created < MaxItems
    /\ resolveCount' = resolveCount + 1
    /\ UNCHANGED resolveFails
    /\ fanout' = FALSE
    /\ items' = <<NewItem>>
    /\ created' = created + 1
    /\ pc' = "items"
    /\ UNCHANGED <<parts, cfgVars, FFMPEG_PATH, idx, results, finishedMsg, emitted,
                   trims, folder, started, succeeded, fetchFails, postFails,
                   errLogs, toolRaised, metaVars>>

resolve_playlist ==
    /\ pc = "loop"
    /\ runThreadCalls' = runThreadCalls \cup {"resolve"}
    /\ idx <= Len(urls)
    /\ \E m \in 1..MaxEntries :
          /\ created + m <= MaxItems
          /\ items' = [i \in 1..m |-> NewItem]
          /\ created' = created + m
    /\ resolveCount' = resolveCount + 1
    /\ UNCHANGED resolveFails
    /\ fanout' = TRUE
    /\ pc' = "items"
    /\ UNCHANGED <<parts, cfgVars, FFMPEG_PATH, idx, results, finishedMsg, emitted,
                   trims, folder, started, succeeded, fetchFails, postFails,
                   errLogs, toolRaised, metaVars>>

\* _download_and_process begins: directly on the run thread for a single item,
\* on a worker of the per-identifier pool (FIFO) for a collection entry.
item_start(i) ==
    /\ pc = "items"
    /\ runThreadCalls' = IF fanout THEN runThreadCalls
                       ELSE runThreadCalls \cup {"transfer"}
    /\ i \in DOMAIN items
    /\ items[i].st = "queued"
    /\ \A j \in 1..(i - 1) : items[j].st # "queued"
    /\ fanout => PoolHasFreeWorker(InFlight, thread_count)
    /\ items' = [items EXCEPT ![i].st = "downloading"]
    /\ started' = started + 1
    /\ UNCHANGED <<parts, cfgVars, FFMPEG_PATH, pc, idx, fanout, results,
                   finishedMsg, emitted, trims, folder, resolveCount, resolveFails, created, succeeded,
                   fetchFails, postFails, errLogs, toolRaised, metaVars>>

\* ydl.download / extract_info / prepare_filename raise: caught, logged, None.
item_fetch_fails(i) ==
    /\ pc = "items"
    /\ i \in DOMAIN items
    /\ items[i].st = "downloading"
    /\ items' = [items EXCEPT ![i].st = "failed", ![i].err = "DownloadError"]
    /\ fetchFails' = fetchFails + 1
    /\ errLogs' = errLogs + 1
    /\ UNCHANGED <<others, cfgVars, FFMPEG_PATH, pc, idx, fanout, results,
                   finishedMsg, emitted, trims, folder, resolveCount, resolveFails, created, started,
                   succeeded, postFails, toolRaised, metaVars>>

\* The state of an item worker that has submitted remove_silence: it blocks
\* on the future's result().
AfterSubmitNoWait == "done"
AfterSubmit == "trimwait"

\* The transfer is complete: audio mode names the .mp3 and, with silence
\* removal, submits remove_silence to general_executor; video mode goes on to
\* the tag-write.
item_fetched(i) ==
    /\ pc = "items"
    /\ i \in DOMAIN items
    /\ items[i].st = "downloading"
    /\ LET f == FileId(idx, i)
           mp3 == [kind |-> "mp3", id |-> f]
       IN IF mode = "audio"
          THEN /\ folder' = folder \cup {f}
               /\ IF silence_removal
                  THEN /\ trims' = (f :> "queued") @@ trims
                       /\ items' = [items EXCEPT ![i].st = AfterSubmit,
                                                 ![i].path = mp3]
                       /\ succeeded' = IF AfterSubmit = "done"
                                       THEN succeeded \cup {mp3} ELSE succeeded
                  ELSE /\ items' = [items EXCEPT ![i].st = "done", ![i].path = mp3]
                       /\ succeeded' = succeeded \cup {mp3}
                       /\ UNCHANGED trims
          ELSE /\ items' = [items EXCEPT ![i].st = "videotag"]
               /\ UNCHANGED <<folder, trims, succeeded>>
    /\ UNCHANGED <<others, cfgVars, FFMPEG_PATH, pc, idx, fanout, results,
                   finishedMsg, emitted, resolveCount, resolveFails, created, started, fetchFails,
                   postFails, errLogs, toolRaised, metaVars>>

\* general_executor.submit(remove_silence, ...): the task waits for one of
\* the workers of general_executor, a pool of its own that runs nothing but
\* trim tasks.
GeneralWorkerFreeSamePool ==
    Cardinality({g \in DOMAIN trims : trims[g] = "running"}) + InFlight
        < (IF fanout THEN thread_count ELSE 1)
GeneralWorkerFree ==
    Cardinality({g \in DOMAIN trims : trims[g] = "running"}) < GeneralWorkers

\* A worker of general_executor takes the trim task of file f.
trim_start(f) ==
    /\ f \in DOMAIN trims
    /\ trims[f] = "queued"
    /\ GeneralWorkerFree
    /\ trims' = [trims EXCEPT ![f] = "running"]
    /\ UNCHANGED <<others, cfgVars, FFMPEG_PATH, pc, idx, fanout, items,
                   results, finishedMsg, emitted, folder, countVars, metaVars>>

\* remove_silence returns (file unchanged or trimmed) or raises.
trim_end(f) ==
    /\ f \in DOMAIN trims
    /\ trims[f] = "running"
    /\ \E ok \in (IF ToolUsable THEN BOOLEAN ELSE {FALSE}) :
          trims' = [trims EXCEPT ![f] = IF ok THEN "ok" ELSE "raised"]
    /\ UNCHANGED <<others, cfgVars, FFMPEG_PATH, pc, idx, fanout, items,
                   results, finishedMsg, emitted, folder, countVars, metaVars>>

\* future.result() returns in the item worker: the path, or the exception of
\* remove_silence, which _download_and_process catches and logs.
item_trim_joined(i) ==
    /\ pc = "items"
    /\ i \in DOMAIN items
    /\ items[i].st = "trimwait"
    /\ LET f == FileId(idx, i)
           rest == [g \in (DOMAIN trims) \ {f} |-> trims[g]]
       IN /\ f \in DOMAIN trims
          /\ trims[f] \in {"ok", "raised"}
          /\ trims' = rest
          /\ IF trims[f] = "ok"
             THEN /\ items' = [items EXCEPT ![i].st = "done"]
                  /\ succeeded' = succeeded \cup {items[i].path}
                  /\ UNCHANGED <<postFails, errLogs>>
             ELSE /\ items' = [items EXCEPT ![i].st = "failed",
                                            ![i].err = "TrimError",
                                            ![i].path = NoPath]
                  /\ postFails' = postFails + 1
                  /\ errLogs' = errLogs + 1
                  /\ UNCHANGED succeeded
    /\ UNCHANGED <<others, cfgVars, FFMPEG_PATH, pc, idx, fanout, results,
                   finishedMsg, emitted, folder, resolveCount, resolveFails, created, started,
                   fetchFails, toolRaised, metaVars>>

\* Video mode: update_video_metadata_ffmpeg into a NamedTemporaryFile, then
\* os.remove of the download; the temp file's path is returned.
item_video_tag(i) ==
    /\ pc = "items"
    /\ runThreadCalls' = IF fanout THEN runThreadCalls
                       ELSE runThreadCalls \cup {"tag-write"}
    /\ i \in DOMAIN items
    /\ items[i].st = "videotag"
    /\ \E ok \in (IF ToolUsable THEN BOOLEAN ELSE {FALSE}) :
          IF ok
          THEN LET p == [kind |-> "tmp", id |-> FileId(idx, i)]
               IN /\ items' = [items EXCEPT ![i].st = "done", ![i].path = p]
                  /\ succeeded' = succeeded \cup {p}
                  /\ UNCHANGED <<postFails, errLogs>>
          ELSE /\ items' = [items EXCEPT ![i].st = "failed", ![i].err = "TagError"]
               /\ postFails' = postFails + 1
               /\ errLogs' = errLogs + 1
               /\ UNCHANGED succeeded
    /\ UNCHANGED <<parts, cfgVars, FFMPEG_PATH, pc, idx, fanout, results,
                   finishedMsg, emitted, trims, folder, resolveCount, resolveFails, created, started,
                   fetchFails, toolRaised, metaVars>>

\* The run thread has every future's result (f.result() in submission order,
\* then the pool's shutdown), or the direct call has returned.
AllItemsReturnedNoWait == TRUE
AllItemsReturned == \A i \in DOMAIN items : items[i].st \in Terminal

\* The paths process_single_url keeps: those that are not None.
KeptAll(its) == its
Kept(its) == SelectSeq(its, LAMBDA it : it.st = "done")

\* process_single_url returns its basenames; run extends results.
collect ==
    /\ pc = "items"
    /\ AllItemsReturned
    /\ LET ok == Kept(items)
       IN results' = results \o [k \in 1..Len(ok) |-> Basename(ok[k].path)]
    /\ items' = <<>>
    /\ idx' = idx + 1
    /\ pc' = "loop"
    /\ UNCHANGED <<others, cfgVars, FFMPEG_PATH, fanout, finishedMsg, emitted, trims,
                   folder, countVars, metaVars>>

\* The loop is over: finished_signal carries the joined basenames or "No files.".
finish ==
    /\ pc = "loop"
    /\ idx > Len(urls)
    /\ finishedMsg' = IF results # <<>> THEN Joined(results)
                                        ELSE Sentinel("No files.")
    /\ emitted' = emitted + 1
    /\ pc' = "finished"
    /\ UNCHANGED <<others, cfgVars, FFMPEG_PATH, idx, fanout, items, results,
                   trims, folder, countVars, metaVars>>

\* ------------------------------- download_finished and MetadataProcessor

\* The condition under which download_finished starts a MetadataProcessor:
\* the download type and the check box as the window shows them now.
StartsMetadataAnyResult(audio, checked, msg) == audio /\ checked
StartsMetadata(audio, checked, msg) ==
    audio /\ checked /\ msg.kind \notin Sentinels

download_finished ==
    /\ pc = "finished"
    /\ ~handled
    /\ handled' = TRUE
    /\ \E audio \in BOOLEAN, checked \in BOOLEAN :
          /\ guiAudio' = audio
          /\ metaRequested' = checked
          /\ metaStarted' = StartsMetadata(audio, checked, finishedMsg)
          /\ metaPc' = IF StartsMetadata(audio, checked, finishedMsg)
                       THEN "scan" ELSE "idle"
    /\ UNCHANGED <<others, cfgVars, FFMPEG_PATH, pc, idx, fanout, items,
                   results, finishedMsg, emitted, trims, folder, countVars,
                   metaFiles, metaNext>>

\* MetadataProcessor.run: file_list is None, so the audio files of the folder.
meta_scan ==
    /\ metaPc = "scan"
    /\ metaFiles' = SortedSeq(folder)
    /\ metaNext' = 1
    /\ metaPc' = IF folder = {} THEN "done" ELSE "tag"
    /\ UNCHANGED <<others, cfgVars, FFMPEG_PATH, pc, idx, fanout, items,
                   results, finishedMsg, emitted, trims, folder, countVars,
                   handled, guiAudio, metaRequested, metaStarted>>

\* process_metadata_file_ffmpeg starts on the next file of the task list.
meta_tag ==
    /\ metaPc = "tag"
    /\ runThreadCalls' = runThreadCalls \cup {"lookup"}
    /\ metaNext' = metaNext + 1
    /\ metaPc' = IF metaNext = Len(metaFiles) THEN "done" ELSE "tag"
    /\ UNCHANGED <<parts, cfgVars, FFMPEG_PATH, pc, idx, fanout, items,
                   results, finishedMsg, emitted, trims, folder, countVars,
                   handled, guiAudio, metaRequested, metaStarted, metaFiles>>

\* The files whose tag-write has started.
TagStarted == {metaFiles[k] : k \in 1..(metaNext - 1)}

Next ==
    \/ run_start
    \/ resolve_raises
    \/ resolve_single
    \/ resolve_playlist
    \/ \E i \in 1..MaxEntries : item_start(i)
    \/ \E i \in 1..MaxEntries : item_fetch_fails(i)
    \/ \E i \in 1..MaxEntries : item_fetched(i)
    \/ \E f \in 1..(MaxUrls * MaxEntries) : trim_start(f)
    \/ \E f \in 1..(MaxUrls * MaxEntries) : trim_end(f)
    \/ \E i \in 1..MaxEntries : item_trim_joined(i)
    \/ \E i \in 1..MaxEntries : item_video_tag(i)
    \/ collect
    \/ finish
    \/ download_finished
    \/ meta_scan
    \/ meta_tag

Spec == Init /\ [][Next]_vars

\* Every thread that can take a step takes one: the run thread (each resolve
\* returns or raises), each item worker of the per-identifier pool (each
\* transfer and each tag-write returns or raises) and the workers of
\* general_executor (each trim returns or raises), and the window handles
\* the result and the metadata pass goes on.
Fairness ==
    /\ WF_vars(run_start \/ resolve_raises \/ resolve_single \/ resolve_playlist
                \/ collect \/ finish)
    /\ \A i \in 1..MaxEntries :
          WF_vars(item_start(i) \/ item_fetch_fails(i) \/ item_fetched(i)
                  \/ item_trim_joined(i) \/ item_video_tag(i))
    /\ WF_vars(\E f \in 1..(MaxUrls * MaxEntries) : trim_start(f))
    /\ WF_vars(\E f \in 1..(MaxUrls * MaxEntries) : trim_end(f))
    /\ WF_vars(download_finished \/ meta_scan \/ meta_tag)

SpecLive == Spec /\ Fairness

\* ------------------------------------------------------ properties of Spec

Range(q) == {q[k] : k \in DOMAIN q}

\* Every identifier went through resolve and every item it produced went
\* through _download_and_process to an outcome.
AllProcessed ==
    /\ resolveCount = Len(urls)
    /\ started = created
    /\ Len(finishedMsg.names) + fetchFails + postFails = created + resolveFails

\* C1: a failed item (resolve, fetch, trim or tag) never keeps the remaining
\* identifiers and collection entries from being processed; the run reports
\* "No files." only if the identifier list is empty or every item failed, and
\* otherwise the basenames of the items that succeeded ("Error" is reported
\* exactly when tool resolution raised, before any identifier is looked at).
C1_FailureIsolation ==
    pc = "finished" =>
        /\ finishedMsg.kind \in Sentinels \cup {"files"}
        /\ finishedMsg.kind = "Error" <=> toolRaised
        /\ ~toolRaised => AllProcessed
        /\ finishedMsg.kind = "No files." => urls = <<>> \/ succeeded = {}
        /\ finishedMsg.kind = "files" =>
              /\ succeeded # {}
              /\ Range(finishedMsg.names) = {Basename(p) : p \in succeeded}
              /\ Len(finishedMsg.names) = Cardinality(succeeded)

\* A run of two identifiers in which something failed and something succeeded.
C1_Witness ==
    /\ pc = "finished"
    /\ Len(urls) = 2
    /\ resolveCount = 2
    /\ fetchFails + postFails >= 1
    /\ finishedMsg.kind = "files"

C3_ConcurrencyBound == InFlight <= thread_count

\* A collection larger than the pool, the pool full and an entry waiting.
C3_Witness ==
    /\ fanout
    /\ Len(items) > thread_count
    /\ InFlight = thread_count
    /\ \E i \in DOMAIN items : items[i].st = "queued"

\* C4: with no ffmpeg on PATH and no bundled ffmpeg.exe, the run ends with the
\* error result before any resolve or fetch is attempted.
C4_ToolUnavailableIsFatal ==
    (~sysTool /\ ~bundled) =>
        /\ resolveCount = 0
        /\ started = 0
        /\ pc = "finished" => finishedMsg.kind = "Error"

\* C5: with silence removal and metadata processing both requested, the
\* tag-write of a file never starts while its trim is queued or running.
C5_TrimBeforeTag ==
    \A f \in TagStarted :
        (f \in DOMAIN trims) => trims[f] \notin {"queued", "running"}

\* The tag-write of a file that went through remove_silence has started.
C5_Witness ==
    /\ mode = "audio"
    /\ silence_removal
    /\ metaRequested
    /\ TagStarted # {}
    /\ \E k \in DOMAIN finishedMsg.names :
          finishedMsg.names[k][2] \in TagStarted

\* C6: a MetadataProcessor is started only when metadata processing is
\* requested, only after the download phase emitted its terminal result, and
\* only if that result is neither "Error" nor "No files.".
C6_MetadataAfterResult ==
    /\ metaStarted =>
          /\ metaRequested
          /\ pc = "finished"
          /\ finishedMsg.kind = "files"
    /\ metaPc # "idle" => metaStarted

C6_Witness == metaStarted /\ metaPc = "done" /\ metaNext > 1

\* C21: the files the metadata pass takes up after a batch are exactly the
\* files the batch wrote; a file that was in the folder before is not among
\* them.
C21_TagsOnlyProduced ==
    (metaStarted /\ metaPc \in {"tag", "done"}) =>
        Range(metaFiles) = folder \ {PreExistingFile}

\* The items that have finished, succeeded or failed, and those that have not.
FinishedItems == Cardinality(succeeded) + (fetchFails - resolveFails) + postFails
UnfinishedNow == Cardinality({i \in DOMAIN items : items[i].st \notin Terminal})

\* C23: identifiers are processed one after the other: every item that has
\* not finished is an item of the identifier the loop is at, so that when the
\* next identifier is resolved every item of the earlier ones has finished
\* and no trim task of theirs is left; the items of an identifier in flight
\* are at most thread_count (one for an identifier that is a single item).
C23_SequentialIdentifiers ==
    /\ created - FinishedItems = UnfinishedNow
    /\ pc \in {"loop", "finished"} =>
          /\ created = FinishedItems
          /\ \A f \in DOMAIN trims : trims[f] \notin {"queued", "running"}
    /\ InFlight <= (IF fanout THEN thread_count ELSE 1)

\* The second identifier is being fetched after the first one's collection,
\* of more entries than thread_count, finished with a failed entry.
C23_Witness ==
    /\ pc = "items"
    /\ idx = 2
    /\ InFlight >= 1
    /\ created - Len(items) > thread_count
    /\ fetchFails + postFails >= 1
    /\ created - FinishedItems = Len(items)

\* What the run has done so far that the window can see or that touches
\* the items: the item workers and their trims, the logged errors, the counts.
RunEvents == <<items, trims, errLogs, results, created, started, succeeded,
               resolveCount, fetchFails, postFails>>

\* C30: every execution of run emits finished_signal exactly once (never
\* twice, and once when it is over), only when every item worker and every
\* trim it started has finished, and nothing of the run happens afterwards.
C30_TerminalResultOnceAndLast ==
    /\ [](/\ emitted <= 1
          /\ pc = "finished" <=> emitted = 1
          /\ emitted = 1 =>
                /\ InFlight = 0
                /\ UnfinishedNow = 0
                /\ \A f \in DOMAIN trims : trims[f] \notin {"queued", "running"})
    /\ [][emitted = 1 => UNCHANGED RunEvents]_vars

\* A run over two identifiers with a collection, three or more items, and a
\* trim that raised has emitted its result, and the window has gone on to the
\* metadata pass.
C30_Witness ==
    /\ pc = "finished"
    /\ emitted = 1
    /\ finishedMsg.kind = "files"
    /\ Len(urls) = 2
    /\ created >= 3
    /\ silence_removal
    /\ postFails >= 1
    /\ metaStarted
    /\ metaPc = "done"

\* C31: when every resolve, transfer and external-process call terminates, a
\* run reaches its terminal result: the item workers that wait for a trim
\* task on general_executor never wait for ever.
C31_RunTerminates == <>(pc = "finished" /\ emitted = 1)

\* Every worker of the per-identifier pool waits for its trim task, a trim
\* task is still queued, and entries of the collection have not started.
C31_Witness ==
    /\ pc = "items"
    /\ fanout
    /\ thread_count = 2
    /\ Cardinality({i \in DOMAIN items : items[i].st = "trimwait"}) = thread_count
    /\ InFlight = thread_count
    /\ \E f \in DOMAIN trims : trims[f] = "queued"
    /\ Len(items) > thread_count

\* C20: no network call (resolve, transfer, enrichment lookup) and no
\* external process (the tool's probe, trim, tag-write) is executed on the
\* thread of DownloadWorker.run or of MetadataProcessor.run.
C20_NothingOnRunThread ==
    runThreadCalls \cap {"resolve", "transfer", "lookup", "tag-write"} = {}

\* =========================================================== SpecTransfer
\* One transfer of _download_and_process: ydl.download([url]) with the
\* options ydl_opts_local, the progress callbacks the extraction library
\* makes during it, and DownloadWorker.cancel.

\* progress_hooks of the options: process_single_url builds ydl_opts with
\* [self._progress_hook]; _download_and_process copies them and then assigns
\* ydl_opts_local['progress_hooks'] = [progress_hook].
BaseHooks == {"_progress_hook"}
LocalHooks(base) == {"progress_hook"}

\* An optional number is <<>> (None, or the key missing) or <<n>>.
OptBytes == {<<>>} \cup {<<n>> : n \in 0..MaxBytes}

\* The dictionaries the library hands to a progress hook.
ProgressDicts ==
    [status : {"downloading", "finished"},
     total_bytes : OptBytes,
     total_bytes_estimate : OptBytes,
     downloaded_bytes : 0..MaxBytes]

\* Python's "a or b" on optional numbers: None and 0 are falsy.
PyOr(a, b) == IF a = <<>> \/ a = <<0>> THEN b ELSE a

\* total = d.get("total_bytes") or d.get("total_bytes_estimate") or 1
Total(d) == PyOr(PyOr(d.total_bytes, d.total_bytes_estimate), <<1>>)[1]

\* int(downloaded * 100 / total)
Percent(d) == (d.downloaded_bytes * 100) \div Total(d)

XferInit ==
    /\ tPc = "downloading"
    /\ cancel_flag = FALSE
    /\ tErr = None
    /\ tCalls = 0
    /\ tAfterCancel = FALSE
    /\ tLogPct = <<>>
    /\ tProgressPct = <<>>
    /\ tD = <<>>
    /\ tReported = <<>>

\* The library calls every hook of the options with d. _progress_hook raises
\* DownloadError("Cancelled.") when cancel_flag is set and else emits
\* progress_update; progress_hook logs "<title>: <pct>%".
xfer_callback ==
    /\ tPc = "downloading"
    /\ tCalls < MaxCallbacks
    /\ tCalls' = tCalls + 1
    /\ \E d \in ProgressDicts :
         LET hooks == LocalHooks(BaseHooks)
         IN IF "_progress_hook" \in hooks /\ cancel_flag
            THEN /\ tPc' = "failed"
                 /\ tErr' = "Cancelled."
                 /\ tD' = <<d>>
                 /\ tReported' = <<>>
                 /\ UNCHANGED <<tAfterCancel, tLogPct, tProgressPct>>
            ELSE /\ tAfterCancel' = (tAfterCancel \/ cancel_flag)
                 /\ tProgressPct' =
                       IF "_progress_hook" \in hooks /\ d.status = "downloading"
                       THEN <<Percent(d)>> ELSE tProgressPct
                 /\ tLogPct' =
                       IF "progress_hook" \in hooks /\ d.status = "downloading"
                       THEN <<Percent(d)>> ELSE tLogPct
                 /\ tD' = <<d>>
                 /\ tReported' =
                       IF hooks # {} /\ d.status = "downloading"
                       THEN <<Percent(d)>> ELSE <<>>
                 /\ UNCHANGED <<tPc, tErr>>
    /\ UNCHANGED <<cancel_flag, runVars, moreVars, silVars, covVars>>

\* DownloadWorker.cancel: sets the flag and logs "Cancelling...".
cancel ==
    /\ tPc # "idle"
    /\ cancel_flag' = TRUE
    /\ UNCHANGED <<tPc, tErr, tCalls, tAfterCancel, tLogPct, tProgressPct,
                   tD, tReported,
                   runVars, moreVars, silVars, covVars>>

\* ydl.download returns.
xfer_completes ==
    /\ tPc = "downloading"
    /\ tPc' = "done"
    /\ UNCHANGED <<cancel_flag, tErr, tCalls, tAfterCancel, tLogPct,
                   tProgressPct, tD, tReported, runVars, moreVars, silVars, covVars>>

\* ydl.download raises for a reason of the network or the source.
xfer_fails ==
    /\ tPc = "downloading"
    /\ tPc' = "failed"
    /\ tErr' = "DownloadError"
    /\ UNCHANGED <<cancel_flag, tCalls, tAfterCancel, tLogPct, tProgressPct,
                   tD, tReported,
                   runVars, moreVars, silVars, covVars>>

TransferNext ==
    \/ xfer_callback
    \/ cancel
    \/ xfer_completes
    \/ xfer_fails

TransferInit == XferInit /\ RunIdle /\ SilIdle /\ CovIdle /\ MoreIdle

SpecTransfer == TransferInit /\ [][TransferNext]_vars

\* C9: once cancel() has set the flag, the next progress callback of an
\* in-flight transfer aborts it with the outcome "Cancelled.".
C9_CancelObservedByCallback ==
    tAfterCancel => (tPc = "failed" /\ tErr = "Cancelled.")

\* Neither the exact total nor an estimate is in the dictionary.
TotalUnknown(d) == d.total_bytes = <<>> /\ d.total_bytes_estimate = <<>>

\* C12: a progress callback whose dictionary has neither the exact total nor
\* an estimated total reports no percentage.
C12_UnknownTotalSkipsPercent ==
    (tD # <<>> /\ TotalUnknown(tD[1])) => tReported = <<>>

\* C13: every percentage a callback reports is an integer between 0 and 100.
C13_PercentInRange ==
    tReported # <<>> => tReported[1] \in 0..100

\* =============================================================== SpecName
\* revamped_parse_filename and generate_tidy_filename on file names. A string
\* is a sequence of characters (strings of length one).

\* The pieces a raw file name is put together from: letters, space,
\* underscore, the separator, brackets, two of the characters that
\* generate_tidy_filename removes (one of them the path separator), the dot.
Alphabet == {"a", "B", " ", "_", " - ", "(", ")", "[", "]", ":", "/", "."}

PieceChars(t) == IF t = " - " THEN <<" ", "-", " ">> ELSE <<t>>

RECURSIVE Flatten(_)
Flatten(ts) ==
    IF ts = <<>> THEN <<>> ELSE PieceChars(Head(ts)) \o Flatten(Tail(ts))

RawNames == {Flatten(ts) : ts \in UNION {[1..n -> Alphabet] : n \in 0..MaxPieces}}

\* The cased characters that occur: those of the alphabet and of the two
\* default strings.
Lowers == <<"a", "b", "e", "i", "k", "l", "n", "o", "r", "s", "t", "u", "v", "w">>
Uppers == <<"A", "B", "E", "I", "K", "L", "N", "O", "R", "S", "T", "U", "V", "W">>

IsLower(c) == \E i \in DOMAIN Lowers : Lowers[i] = c
IsUpper(c) == \E i \in DOMAIN Uppers : Uppers[i] = c
Cased(c) == IsLower(c) \/ IsUpper(c)
Upper(c) ==
    IF IsLower(c) THEN Uppers[CHOOSE i \in DOMAIN Lowers : Lowers[i] = c] ELSE c
Lower(c) ==
    IF IsUpper(c) THEN Lowers[CHOOSE i \in DOMAIN Uppers : Uppers[i] = c] ELSE c

\* str.title(): a cased character is upper case after an uncased one (or at
\* the start) and lower case after a cased one.
RECURSIVE TitleFrom(_, _)
TitleFrom(s, prevCased) ==
    IF s = <<>> THEN <<>>
    ELSE LET c == Head(s)
         IN <<IF ~Cased(c) THEN c
              ELSE IF prevCased THEN Lower(c) ELSE Upper(c)>>
            \o TitleFrom(Tail(s), Cased(c))

Title(s) == TitleFrom(s, FALSE)

\* str.strip()
RECURSIVE LStrip(_)
LStrip(s) == IF s # <<>> /\ Head(s) = " " THEN LStrip(Tail(s)) ELSE s

RECURSIVE RStrip(_)
RStrip(s) ==
    IF s # <<>> /\ s[Len(s)] = " " THEN RStrip(SubSeq(s, 1, Len(s) - 1)) ELSE s

Strip(s) == RStrip(LStrip(s))

\* str.replace of one character by another
Replace(s, from, to) == [i \in DOMAIN s |-> IF s[i] = from THEN to ELSE s[i]]

\* remove_emojis: the characters of the four emoji ranges are dropped.
Emojis == {"emoji"}
remove_emojis(s) == SelectSeq(s, LAMBDA c : c \notin Emojis)

\* re.sub(r'\([^)]*\)', '', text) and the same for square brackets: from the
\* left, an opening bracket that has a closing one after it is removed with
\* everything up to the first closing one.
RECURSIVE RemoveGroups(_, _, _)
RemoveGroups(s, open, close) ==
    IF s = <<>> THEN <<>>
    ELSE IF Head(s) = open /\ \E j \in 2..Len(s) : s[j] = close
         THEN LET j == CHOOSE j \in 2..Len(s) :
                          s[j] = close /\ \A k \in 2..(j - 1) : s[k] # close
              IN RemoveGroups(SubSeq(s, j + 1, Len(s)), open, close)
         ELSE <<Head(s)>> \o RemoveGroups(Tail(s), open, close)

\* re.sub(r'\s+', ' ', text)
RECURSIVE CollapseSpaces(_)
CollapseSpaces(s) ==
    IF s = <<>> THEN <<>>
    ELSE IF Head(s) = " " THEN <<" ">> \o CollapseSpaces(LStrip(s))
    ELSE <<Head(s)>> \o CollapseSpaces(Tail(s))

clean_filename_extras(text) ==
    Strip(CollapseSpaces(RemoveGroups(RemoveGroups(text, "(", ")"), "[", "]")))

\* os.path.splitext: the extension starts at the last dot that is after the
\* last path separator and has a character other than a dot between the
\* separator and itself.
PathSeps == {"/", "\\"}

LastIndex(s, cs) ==
    IF \E i \in DOMAIN s : s[i] \in cs
    THEN CHOOSE i \in DOMAIN s : s[i] \in cs /\ \A k \in (i + 1)..Len(s) : s[k] \notin cs
    ELSE 0

splitext(p) ==
    LET sepIndex == LastIndex(p, PathSeps)
        dotIndex == LastIndex(p, {"."})
    IN IF /\ dotIndex > sepIndex
          /\ \E k \in (sepIndex + 1)..(dotIndex - 1) : p[k] # "."
       THEN <<SubSeq(p, 1, dotIndex - 1), SubSeq(p, dotIndex, Len(p))>>
       ELSE <<p, <<>>>>

\* The first position of " - " in s, 0 when there is none.
FindSeparator(s) ==
    LET At(i) == i + 2 <= Len(s) /\ s[i] = " " /\ s[i + 1] = "-" /\ s[i + 2] = " "
    IN IF \E i \in DOMAIN s : At(i)
       THEN CHOOSE i \in DOMAIN s : At(i) /\ \A k \in 1..(i - 1) : ~At(k)
       ELSE 0

UnknownArtist == <<"U", "n", "k", "n", "o", "w", "n", " ", "A", "r", "t", "i", "s", "t">>
UnknownTitle == <<"U", "n", "k", "n", "o", "w", "n", " ", "T", "i", "t", "l", "e">>
Separator == <<" ", "-", " ">>

revamped_parse_filename(filename) ==
    LET se == splitext(filename)
        name == clean_filename_extras(remove_emojis(Strip(Replace(se[1], "_", " "))))
        i == FindSeparator(name)
    IN IF i # 0
       THEN [artist |-> Title(Strip(SubSeq(name, 1, i - 1))),
             title |-> Title(Strip(SubSeq(name, i + 3, Len(name)))),
             ext |-> se[2]]
       ELSE [artist |-> UnknownArtist, title |-> Title(name), ext |-> se[2]]

\* dict.get(key, default)
Get(d, key, default) == IF key \in DOMAIN d THEN d[key] ELSE default

\* the characters of the class [\\/*?:"<>|]
Unsafe == {"\\", "/", "*", "?", ":", "\"", "<", ">", "|"}

Sanitise(s) == SelectSeq(s, LAMBDA c : c \notin Unsafe)

generate_tidy_filename_keeps_ext(d) ==
    Sanitise(Get(d, "artist", UnknownArtist) \o Separator
             \o Get(d, "title", UnknownTitle)) \o Get(d, "ext", <<>>)

generate_tidy_filename(d) ==
    Sanitise(Get(d, "artist", UnknownArtist) \o Separator
             \o Get(d, "title", UnknownTitle) \o Get(d, "ext", <<>>))

\* Track identities handed to generate_tidy_filename directly: any of the
\* three keys may be missing, and the values hold every unsafe character.
IdStrings ==
    {<<>>, <<"a">>, <<"a", ":", "b">>, <<"\\", "/", "*">>, <<"?", "\"", "<">>,
     <<".", ">", "|", "x">>}

Identities ==
    UNION {[ks -> IdStrings] : ks \in SUBSET {"artist", "title", "ext"}}

NameInit ==
    /\ \/ /\ nPc = "raw"
          /\ raw \in RawNames
          /\ info = <<>>
       \/ /\ nPc = "given"
          /\ raw = <<>>
          /\ info \in {<<d>> : d \in Identities}
    /\ tidy = <<>>
    /\ info2 = <<>>

exceptName == <<runVars, xferVars, silVars, covVars, optVars, tagVars, ensVars, pathVars>>

\* info = revamped_parse_filename(os.path.basename(filename))
name_parse ==
    /\ nPc = "raw"
    /\ info' = <<revamped_parse_filename(raw)>>
    /\ nPc' = "parsed"
    /\ UNCHANGED <<raw, tidy, info2, exceptName>>

\* new_name = generate_tidy_filename(info)
name_format ==
    /\ nPc \in {"parsed", "given"}
    /\ tidy' = generate_tidy_filename(info[1])
    /\ nPc' = IF nPc = "parsed" THEN "formatted" ELSE "done"
    /\ UNCHANGED <<raw, info, info2, exceptName>>

\* The formatted name is parsed again (the tagged file is in the folder the
\* next MetadataProcessor lists).
name_reparse ==
    /\ nPc = "formatted"
    /\ info2' = <<revamped_parse_filename(tidy)>>
    /\ nPc' = "reparsed"
    /\ UNCHANGED <<raw, info, tidy, exceptName>>

NameNext ==
    \/ name_parse
    \/ name_format
    \/ name_reparse

SpecNameInit ==
    NameInit /\ RunIdle /\ XferIdle /\ SilIdle /\ CovIdle /\ OptIdle /\ TagIdle
    /\ EnsIdle /\ PathIdle

SpecName == SpecNameInit /\ [][NameNext]_vars

\* C14: parsing the formatted name of a parsed raw name gives the artist and
\* the title of the first parse.
C14_ParseFormatIdempotent ==
    nPc = "reparsed" =>
        /\ info2[1].artist = info[1].artist
        /\ info2[1].title = info[1].title

HasUnsafe(s) == \E i \in DOMAIN s : s[i] \in Unsafe

\* C15: the name generate_tidy_filename returns holds none of the characters
\* \ / * ? : " < > |, whatever the artist, title and extension hold.
C15_TidyNameSafe ==
    nPc \in {"formatted", "reparsed", "done"} => ~HasUnsafe(tidy)

\* An identity whose extension holds unsafe characters has been formatted.
C15_Witness ==
    /\ nPc = "done"
    /\ "ext" \in DOMAIN info[1]
    /\ HasUnsafe(info[1]["ext"])
    /\ "title" \in DOMAIN info[1]
    /\ HasUnsafe(info[1]["title"])
    /\ tidy # <<>>

\* A "(" or "[" followed later by its closing bracket.
HasAnnotation(s) ==
    \E i, j \in DOMAIN s :
        /\ i < j
        /\ \/ s[i] = "(" /\ s[j] = ")"
           \/ s[i] = "[" /\ s[j] = "]"

\* C27: for every raw filename, the parsed artist and title are non-empty,
\* hold no filesystem-unsafe character and no parenthesised or bracketed
\* annotation, and the artist is "Unknown Artist" when the name holds no
\* hyphen at all.
C27_IdentityWellFormed ==
    nPc \in {"parsed", "formatted", "reparsed"} =>
        /\ info[1].artist # <<>>
        /\ info[1].title # <<>>
        /\ ~HasUnsafe(info[1].artist)
        /\ ~HasUnsafe(info[1].title)
        /\ ~HasAnnotation(info[1].artist)
        /\ ~HasAnnotation(info[1].title)
        /\ (\A k \in DOMAIN raw : raw[k] # "-") => info[1].artist = UnknownArtist

\* ============================================================ SpecOptions
\* The options of process_single_url and the copy _download_and_process
\* makes of them for one item.

\* str.lower()
lower(s) == [i \in DOMAIN s |-> Lower(s[i])]

\* The items of the browser box and of the type box of the window.
Browsers ==
    {<<"f", "i", "r", "e", "f", "o", "x">>, <<"c", "h", "r", "o", "m", "e">>,
     <<"e", "d", "g", "e">>, <<"o", "p", "e", "r", "a">>,
     <<"b", "r", "a", "v", "e">>, <<"n", "o", "n", "e">>}
Modes == {<<"A", "u", "d", "i", "o">>, <<"V", "i", "d", "e", "o">>}

\* The text of the cookies field, and the paths it can name.
CookiePaths == {"c.txt", "d.txt"}
CookieTexts == {""} \cup CookiePaths

\* if self.browser.lower() != "none": cookiesfrombrowser
\* elif self.cookies and os.path.exists(self.cookies): cookiefile
CookieOptionsBoth(b, c, files) ==
    [cookiesfrombrowser |->
         IF lower(b) # <<"n", "o", "n", "e">> THEN <<lower(b)>> ELSE <<>>,
     cookiefile |-> IF c # "" /\ c \in files THEN <<c>> ELSE <<>>]

CookieOptions(b, c, files) ==
    IF lower(b) # <<"n", "o", "n", "e">>
    THEN [cookiesfrombrowser |-> <<lower(b)>>, cookiefile |-> <<>>]
    ELSE IF c # "" /\ c \in files
    THEN [cookiesfrombrowser |-> <<>>, cookiefile |-> <<c>>]
    ELSE [cookiesfrombrowser |-> <<>>, cookiefile |-> <<>>]

OptInit ==
    /\ oPc = "start"
    /\ oMode \in Modes
    /\ browser \in Browsers
    /\ cookies \in CookieTexts
    /\ cookieFiles \in SUBSET CookiePaths
    /\ ydl_opts = <<>>
    /\ ydl_opts_local = <<>>

exceptOpt == <<runVars, xferVars, silVars, covVars, nameVars, tagVars, ensVars, pathVars>>

\* process_single_url up to the YoutubeDL it resolves with.
build_options ==
    /\ oPc = "start"
    /\ LET audio == lower(oMode) = <<"a", "u", "d", "i", "o">>
           auth == CookieOptions(browser, cookies, cookieFiles)
       IN ydl_opts' =
            <<[format |-> IF audio THEN "bestaudio" ELSE "bestvideo+bestaudio/best",
               postprocessors |-> IF audio THEN <<"FFmpegExtractAudio">> ELSE <<>>,
               cookiesfrombrowser |-> auth.cookiesfrombrowser,
               cookiefile |-> auth.cookiefile,
               progress_hooks |-> BaseHooks]>>
    /\ oPc' = "built"
    /\ UNCHANGED <<oMode, browser, cookies, cookieFiles, ydl_opts_local, exceptOpt>>

\* ydl_opts_local = dict(base_opts) and the replacement of its hooks.
local_options ==
    /\ oPc = "built"
    /\ ydl_opts_local' =
          <<[ydl_opts[1] EXCEPT !.progress_hooks = LocalHooks(@)]>>
    /\ oPc' = "local"
    /\ UNCHANGED <<oMode, browser, cookies, cookieFiles, ydl_opts, exceptOpt>>

OptionsNext ==
    \/ build_options
    \/ local_options

OptionsInit ==
    OptInit /\ RunIdle /\ XferIdle /\ SilIdle /\ CovIdle /\ NameIdle /\ TagIdle
    /\ EnsIdle /\ PathIdle

SpecOptions == OptionsInit /\ [][OptionsNext]_vars

\* C16: the options carry at most one authentication source: the browser's
\* cookie store whenever the browser is not "none", the cookie file only when
\* the browser is "none"; never both.
C16_OneAuthSource ==
    \A o \in {ydl_opts, ydl_opts_local} :
        o # <<>> =>
            /\ ~(o[1].cookiesfrombrowser # <<>> /\ o[1].cookiefile # <<>>)
            /\ browser # <<"n", "o", "n", "e">> =>
                   /\ o[1].cookiesfrombrowser = <<browser>>
                   /\ o[1].cookiefile = <<>>
            /\ o[1].cookiefile # <<>> =>
                   /\ browser = <<"n", "o", "n", "e">>
                   /\ o[1].cookiefile = <<cookies>>

\* A browser is chosen and the cookies field names a file that exists.
C16_Witness ==
    /\ oPc = "local"
    /\ browser = <<"c", "h", "r", "o", "m", "e">>
    /\ cookies = "c.txt"
    /\ "c.txt" \in cookieFiles
    /\ ydl_opts_local[1].cookiesfrombrowser # <<>>

\* ================================================================ SpecTag
\* The tag-write of the files of one batch. Audio: MetadataProcessor.run maps
\* process_metadata_file_ffmpeg over the files on metadata_process_executor.
\* Video: the else branch of _download_and_process, on the item workers.
\* Every file has its own paths: filename (the downloaded file), temp_output
\* (the NamedTemporaryFile), final_output (the tidy name, audio only; gSame
\* says that it is filename itself) and cover_temp (the mkstemp file).
\* gCover is what became of the file's cover ("none": no cover or thumbnail
\* given, "not fetched": the thumbnail could not be downloaded, "converted",
\* "raises early"/"raises late": the conversion raised before/after mkstemp);
\* gRaised is the exception that ended the file's processing.
\* A path holds "absent", "orig", "empty", "partial", "tagged", "jpg" or
\* "other" (a file that was in the folder under the tidy name).

TagItems == 1..MaxTagged

TagInit ==
    /\ gKind \in {"audio", "video"}
    /\ gPc = [i \in TagItems |-> "start"]
    /\ gSame \in [TagItems -> BOOLEAN]
    /\ gKind = "video" => gSame = [i \in TagItems |-> FALSE]
    /\ \E pre \in [TagItems -> {"absent", "other"}] :
          /\ \A i \in TagItems : (gSame[i] \/ gKind = "video") => pre[i] = "absent"
          /\ gfs = [i \in TagItems |->
                      [filename |-> "orig", temp_output |-> "absent",
                       final_output |-> pre[i], cover_temp |-> "absent"]]
    /\ tagFailed = [i \in TagItems |-> FALSE]
    /\ gResult = [i \in TagItems |-> "pending"]
    /\ gLog = [i \in TagItems |-> "none"]
    /\ gCover = [i \in TagItems |-> "unset"]
    /\ gRaised = [i \in TagItems |-> "none"]

exceptTag == <<runVars, xferVars, silVars, covVars, nameVars, optVars, ensVars, pathVars>>

\* What the caller reports for a file whose processing raised: the worker
\* returns None; MetadataProcessor.run logs "Meta fail.", _download_and_process
\* logs "Error: ...".
Fail(i) ==
    /\ gPc' = [gPc EXCEPT ![i] = "failed"]
    /\ gResult' = [gResult EXCEPT ![i] = "None"]
    /\ gLog' = [gLog EXCEPT ![i] = IF gKind = "audio" THEN "Meta fail." ELSE "Error"]

\* with tempfile.NamedTemporaryFile(..., delete=False) as tmp
tag_prepare(i) ==
    /\ gPc[i] = "start"
    /\ \/ /\ gfs' = [gfs EXCEPT ![i].temp_output = "empty"]
          /\ gPc' = [gPc EXCEPT ![i] = "cover"]
          /\ UNCHANGED <<gResult, gLog, gRaised>>
       \/ /\ Fail(i)
          /\ gRaised' = [gRaised EXCEPT ![i] = "OSError"]
          /\ UNCHANGED gfs
    /\ UNCHANGED <<gKind, gSame, tagFailed, gCover, exceptTag>>

\* update_audio_metadata_ffmpeg / update_video_metadata_ffmpeg up to the
\* command line: without a cover no second input is added (CoverInput says
\* whether the "-i", cover_temp arguments are); with one it is
\* converted and written to cover_temp. When the conversion raises before
\* mkstemp, cover_temp is None, the command holds None and " ".join(cmd)
\* raises; when it raises after mkstemp, cover_temp names an empty file.
CoverInput(c) == c \notin {"none", "not fetched"}

tag_cover(i) ==
    /\ gPc[i] = "cover"
    /\ \E c \in {"none", "not fetched", "converted", "raises early", "raises late"} :
          /\ c = "not fetched" => gKind = "video"
          /\ gCover' = [gCover EXCEPT ![i] = c]
          /\ CASE ~CoverInput(c) ->
                 /\ gPc' = [gPc EXCEPT ![i] = "invoke"]
                 /\ UNCHANGED <<gfs, tagFailed, gResult, gLog, gRaised>>
            [] c = "converted" ->
                 /\ gfs' = [gfs EXCEPT ![i].cover_temp = "jpg"]
                 /\ gPc' = [gPc EXCEPT ![i] = "invoke"]
                 /\ UNCHANGED <<tagFailed, gResult, gLog, gRaised>>
            [] c = "raises late" ->
                 /\ gfs' = [gfs EXCEPT ![i].cover_temp = "empty"]
                 /\ gPc' = [gPc EXCEPT ![i] = "invoke"]
                 /\ UNCHANGED <<tagFailed, gResult, gLog, gRaised>>
            [] c = "raises early" ->
                 /\ tagFailed' = [tagFailed EXCEPT ![i] = TRUE]
                 /\ Fail(i)
                 /\ gRaised' = [gRaised EXCEPT ![i] = "TypeError"]
                 /\ UNCHANGED gfs
    /\ UNCHANGED <<gKind, gSame, exceptTag>>

\* subprocess.run(cmd, check=True) returns: temp_output holds the tagged
\* copy; cover_temp is removed if it exists.
tag_invoke_ok(i) ==
    /\ gPc[i] = "invoke"
    /\ gfs' = [gfs EXCEPT ![i].temp_output = "tagged", ![i].cover_temp = "absent"]
    /\ gPc' = [gPc EXCEPT ![i] = "remove"]
    /\ UNCHANGED <<gKind, gSame, tagFailed, gResult, gLog, gCover, gRaised, exceptTag>>

\* Where a file's processing goes on after subprocess.run(cmd, check=True)
\* raised: the exception leaves update_*_metadata_ffmpeg and is caught by the
\* caller's except clause.
TagFailureIgnored(i) ==
    /\ gPc' = [gPc EXCEPT ![i] = "remove"]
    /\ UNCHANGED <<gResult, gLog>>

TagFailure(i) == Fail(i)

\* The tool fails, before or after it wrote part of temp_output.
tag_invoke_fails(i) ==
    /\ gPc[i] = "invoke"
    /\ \E wrote \in BOOLEAN :
          gfs' = [gfs EXCEPT ![i].temp_output = IF wrote THEN "partial" ELSE @]
    /\ tagFailed' = [tagFailed EXCEPT ![i] = TRUE]
    /\ TagFailure(i)
    /\ gRaised' = [gRaised EXCEPT ![i] = "CalledProcessError"]
    /\ UNCHANGED <<gKind, gSame, gCover, exceptTag>>

\* os.remove(filename) (audio), os.remove(temp_file) (video); the video
\* branch then returns the path of the temporary file.
tag_remove_orig(i) ==
    /\ gPc[i] = "remove"
    /\ \/ /\ gfs' = [gfs EXCEPT ![i].filename = "absent"]
          /\ IF gKind = "audio"
             THEN /\ gPc' = [gPc EXCEPT ![i] = "clear"]
                  /\ UNCHANGED <<gResult, gLog>>
             ELSE /\ gPc' = [gPc EXCEPT ![i] = "returned"]
                  /\ gResult' = [gResult EXCEPT ![i] = "temp_output"]
                  /\ UNCHANGED gLog
          /\ UNCHANGED gRaised
       \/ /\ Fail(i)
          /\ gRaised' = [gRaised EXCEPT ![i] = "OSError"]
          /\ UNCHANGED gfs
    /\ UNCHANGED <<gKind, gSame, tagFailed, gCover, exceptTag>>

\* if os.path.exists(final_output): os.remove(final_output)
tag_clear_final(i) ==
    /\ gPc[i] = "clear"
    /\ gfs' = [gfs EXCEPT ![i].final_output = "absent"]
    /\ gPc' = [gPc EXCEPT ![i] = "replace"]
    /\ UNCHANGED <<gKind, gSame, tagFailed, gResult, gLog, gCover, gRaised, exceptTag>>

\* os.replace(temp_output, final_output); return final_output, which
\* MetadataProcessor.run logs as "Updated: ...".
tag_replace(i) ==
    /\ gPc[i] = "replace"
    /\ gfs' = IF gSame[i]
              THEN [gfs EXCEPT ![i].filename = gfs[i].temp_output,
                               ![i].temp_output = "absent"]
              ELSE [gfs EXCEPT ![i].final_output = gfs[i].temp_output,
                               ![i].temp_output = "absent"]
    /\ gPc' = [gPc EXCEPT ![i] = "returned"]
    /\ gResult' = [gResult EXCEPT ![i] = IF gSame[i] THEN "filename" ELSE "final_output"]
    /\ gLog' = [gLog EXCEPT ![i] = "Updated"]
    /\ UNCHANGED <<gKind, gSame, tagFailed, gCover, gRaised, exceptTag>>

TagNext ==
    \E i \in TagItems :
        \/ tag_prepare(i)
        \/ tag_cover(i)
        \/ tag_invoke_ok(i)
        \/ tag_invoke_fails(i)
        \/ tag_remove_orig(i)
        \/ tag_clear_final(i)
        \/ tag_replace(i)

SpecTagInit ==
    TagInit /\ RunIdle /\ XferIdle /\ SilIdle /\ CovIdle /\ NameIdle /\ OptIdle
    /\ EnsIdle /\ PathIdle

SpecTag == SpecTagInit /\ [][TagNext]_vars

\* C18: when the tag-write of a file fails, the file is still at its path
\* with its content unchanged, and that file, and no file whose tag-write did
\* not fail, is reported as failed for it.
C18_FailedTagKeepsOriginal ==
    \A i \in TagItems :
        /\ tagFailed[i] =>
              /\ gfs[i].filename = "orig"
              /\ gPc[i] = "failed"
              /\ gResult[i] = "None"
              /\ gLog[i] \in {"Meta fail.", "Error"}
        /\ (gLog[i] \in {"Meta fail.", "Error"}) => gPc[i] = "failed"

\* The tool failed on the first file after writing part of its output, the
\* second file of the batch has been tagged and reported.
C18_Witness ==
    /\ tagFailed[1]
    /\ gfs[1].temp_output = "partial"
    /\ gPc[2] = "returned"
    /\ gfs[2].filename = "absent"
    /\ gLog[1] # "none"

\* C25: in the video tag-write, when there is no thumbnail, the thumbnail
\* cannot be downloaded or its conversion fails, no cover input is added to
\* the command and the update does not fail on that account.
C25_VideoWithoutCoverCopies ==
    \A i \in TagItems :
        (gKind = "video" /\ gCover[i] \in {"none", "not fetched", "raises early", "raises late"}) =>
            /\ ~CoverInput(gCover[i])
            /\ gRaised[i] # "TypeError"

\* C26: once update_audio_metadata_ffmpeg or update_video_metadata_ffmpeg
\* has returned or raised, the cover temp file it created is gone.
C26_CoverTempRemoved ==
    \A i \in TagItems :
        (gPc[i] \in {"remove", "clear", "replace", "returned", "failed"}) =>
            gfs[i].cover_temp = "absent"

\* C28: after the tag-write of a video item succeeded, the tagged content is
\* at the item's download path and that path is the one reported.
C28_VideoTaggedInPlace ==
    \A i \in TagItems :
        (gKind = "video" /\ gPc[i] = "returned") =>
            /\ gfs[i].filename = "tagged"
            /\ gResult[i] = "filename"

\* C29: processing a file removes or overwrites no file other than its own
\* input and its own temp output: a file that was under the tidy name stays.
C29_NoOtherFileDestroyed ==
    [][\A i \in TagItems :
          (~gSame[i] /\ gfs[i].final_output = "other") =>
              gfs'[i].final_output = "other"]_vars

\* ============================================================= SpecFfmpeg
\* ensure_ffmpeg called by several threads of one process (the run threads of
\* DownloadWorker and MetadataProcessor, the workers of general_executor and
\* of the per-identifier pools). The function holds no lock; each statement
\* is a step.

Callers == 1..MaxCallers

EnsInit ==
    /\ eSys \in BOOLEAN
    /\ eBundled \in BOOLEAN
    /\ eGlobal = 0
    /\ ePc = [c \in Callers |-> "out"]
    /\ eLocal = [c \in Callers |-> 0]
    /\ eRet = [c \in Callers |-> 0]
    /\ eCalls = [c \in Callers |-> 0]
    /\ eDirs = 0
    /\ eCopies = 0

exceptEns == <<runVars, xferVars, silVars, covVars, nameVars, optVars, tagVars, pathVars>>

\* A thread enters ensure_ffmpeg.
ens_call(c) ==
    /\ ePc[c] \in {"out", "returned"}
    /\ eCalls[c] < MaxCalls
    /\ eCalls' = [eCalls EXCEPT ![c] = @ + 1]
    /\ ePc' = [ePc EXCEPT ![c] = "probe"]
    /\ UNCHANGED <<eSys, eBundled, eGlobal, eLocal, eRet, eDirs, eCopies, exceptEns>>

\* subprocess.run(["ffmpeg", "-version"], check=True); FFMPEG_PATH = "ffmpeg"
\* when it returns, the except clause when it raises.
ens_probe(c) ==
    /\ ePc[c] = "probe"
    /\ IF eSys
       THEN /\ eGlobal' = -1
            /\ ePc' = [ePc EXCEPT ![c] = "return"]
       ELSE /\ ePc' = [ePc EXCEPT ![c] = "check"]
            /\ UNCHANGED eGlobal
    /\ UNCHANGED <<eSys, eBundled, eLocal, eRet, eCalls, eDirs, eCopies, exceptEns>>

\* if FFMPEG_PATH is None
ens_check(c) ==
    /\ ePc[c] = "check"
    /\ ePc' = [ePc EXCEPT ![c] = IF eGlobal = 0 THEN "setup" ELSE "return"]
    /\ UNCHANGED <<eSys, eBundled, eGlobal, eLocal, eRet, eCalls, eDirs, eCopies,
                   exceptEns>>

\* setup_ffmpeg_embedded(): a new temporary directory, the copy of ffmpeg.exe
\* into it when the working directory has one; mkdtemp or the copy may raise.
ens_setup(c) ==
    /\ ePc[c] = "setup"
    /\ eDirs < MaxCallers * MaxCalls
    /\ \E canWrite \in BOOLEAN :
          LET r == setup_ffmpeg_embedded(eBundled, canWrite)
          IN IF r.raised
             THEN /\ ePc' = [ePc EXCEPT ![c] = "raised"]
                  /\ UNCHANGED <<eLocal, eDirs, eCopies>>
             ELSE /\ eDirs' = eDirs + 1
                  /\ eCopies' = IF eBundled THEN eCopies + 1 ELSE eCopies
                  /\ eLocal' = [eLocal EXCEPT ![c] = eDirs + 1]
                  /\ ePc' = [ePc EXCEPT ![c] = "assign"]
    /\ UNCHANGED <<eSys, eBundled, eGlobal, eRet, eCalls, exceptEns>>

\* FFMPEG_PATH = <what setup_ffmpeg_embedded returned>
ens_assign(c) ==
    /\ ePc[c] = "assign"
    /\ eGlobal' = eLocal[c]
    /\ ePc' = [ePc EXCEPT ![c] = "return"]
    /\ UNCHANGED <<eSys, eBundled, eLocal, eRet, eCalls, eDirs, eCopies, exceptEns>>

\* return FFMPEG_PATH
ens_return(c) ==
    /\ ePc[c] = "return"
    /\ eRet' = [eRet EXCEPT ![c] = eGlobal]
    /\ ePc' = [ePc EXCEPT ![c] = "returned"]
    /\ UNCHANGED <<eSys, eBundled, eGlobal, eLocal, eCalls, eDirs, eCopies, exceptEns>>

EnsNext ==
    \E c \in Callers :
        \/ ens_call(c)
        \/ ens_probe(c)
        \/ ens_check(c)
        \/ ens_setup(c)
        \/ ens_assign(c)
        \/ ens_return(c)

SpecFfmpegInit ==
    /\ EnsInit /\ RunIdle /\ XferIdle /\ SilIdle /\ CovIdle
    /\ NameIdle /\ OptIdle /\ TagIdle /\ PathIdle

SpecFfmpeg == SpecFfmpegInit /\ [][EnsNext]_vars

\* C19: with the system tool absent, the callers of ensure_ffmpeg make at
\* most one temporary directory and one copy of the bundled binary, and every
\* call returns the same path.
C19_ResolveOnce ==
    ~eSys =>
        /\ eDirs <= 1
        /\ eCopies <= 1
        /\ \A c, d \in Callers :
              (eRet[c] # 0 /\ eRet[d] # 0) => eRet[c] = eRet[d]

\* ============================================================== SpecPaths
\* The output paths of the entries of one collection. process_single_url and
\* _download_and_process name the file of an entry by the template
\* "%(title)s.%(ext)s" in out_folder: the path of an entry is its title. The
\* entries run on the workers of the per-identifier pool.

PathEntries == 1..MaxSameBatch
Titles == 1..MaxTitles

PathInit ==
    /\ entryTitle \in [PathEntries -> Titles]
    /\ entryPc = [e \in PathEntries |-> "queued"]
    /\ pSilence \in BOOLEAN
    /\ pathWriters = [t \in Titles |-> {}]
    /\ pathTrimmers = [t \in Titles |-> {}]
    /\ pathResults = [t \in Titles |-> {}]

exceptPath == <<runVars, xferVars, silVars, covVars, nameVars, optVars, tagVars,
                ensVars>>

\* ydl.download([url]) of entry e writes the file named by its title;
\* fname = prepare_filename(info), with the extension .mp3.
path_fetch(e) ==
    /\ entryPc[e] = "queued"
    /\ pathWriters' = [pathWriters EXCEPT ![entryTitle[e]] = @ \cup {e}]
    /\ entryPc' = [entryPc EXCEPT ![e] = IF pSilence THEN "trim" ELSE "fetched"]
    /\ UNCHANGED <<entryTitle, pSilence, pathTrimmers, pathResults, exceptPath>>

\* general_executor.submit(remove_silence, os.path.abspath(fname)).result()
path_trim(e) ==
    /\ entryPc[e] = "trim"
    /\ pathTrimmers' = [pathTrimmers EXCEPT ![entryTitle[e]] = @ \cup {e}]
    /\ entryPc' = [entryPc EXCEPT ![e] = "fetched"]
    /\ UNCHANGED <<entryTitle, pSilence, pathWriters, pathResults, exceptPath>>

\* return os.path.abspath(fname); results.append(os.path.basename(path))
path_report(e) ==
    /\ entryPc[e] = "fetched"
    /\ pathResults' = [pathResults EXCEPT ![entryTitle[e]] = @ \cup {e}]
    /\ entryPc' = [entryPc EXCEPT ![e] = "reported"]
    /\ UNCHANGED <<entryTitle, pSilence, pathWriters, pathTrimmers, exceptPath>>

PathsNext ==
    \E e \in PathEntries :
        \/ path_fetch(e)
        \/ path_trim(e)
        \/ path_report(e)

SpecPathsInit ==
    /\ PathInit /\ RunIdle /\ XferIdle /\ SilIdle /\ CovIdle
    /\ NameIdle /\ OptIdle /\ TagIdle /\ EnsIdle

SpecPaths == SpecPathsInit /\ [][PathsNext]_vars

\* C22: no two entries are written to, trimmed at or reported under the same
\* output path.
C22_OnePathOneItem ==
    \A t \in Titles :
        /\ Cardinality(pathWriters[t]) <= 1
        /\ Cardinality(pathTrimmers[t]) <= 1
        /\ Cardinality(pathResults[t]) <= 1

\* ============================================================ SpecSilence
\* One call of remove_silence(input_file): the parse of the stderr of the
\* silencedetect run, the trim invocation into temp_file (input_file with
\* "_nosilence" before the extension), os.remove and os.rename.

\* A line of the stream: without the text "silence_end:", with it and a
\* number after it, or with it and no number after it (float() or the index
\* raises, and the loop takes the next line).
Lines ==
    {[k |-> "other", v |-> 0], [k |-> "bad", v |-> 0]}
        \cup {[k |-> "end", v |-> t] : t \in 0..MaxTime}

Streams == UNION {[1..n -> Lines] : n \in 0..MaxLines}

\* What a path holds.
Absent == [k |-> "absent", from |-> 0]
Orig == [k |-> "orig", from |-> 0]
Stale == [k |-> "stale", from |-> 0]
Partial == [k |-> "partial", from |-> 0]
Trimmed(t) == [k |-> "trimmed", from |-> t]

Max(a, b) == IF a >= b THEN a ELSE b

\* The loop over output.splitlines(): the value of the first line that holds
\* "silence_end:" and parses, <<>> if there is none.
RECURSIVE LastSilenceEnd(_)
LastSilenceEnd(s) ==
    IF s = <<>> THEN <<>>
    ELSE IF s[Len(s)].k = "end" THEN <<s[Len(s)].v>>
    ELSE LastSilenceEnd(SubSeq(s, 1, Len(s) - 1))

RECURSIVE FirstSilenceEnd(_)
FirstSilenceEnd(s) ==
    IF s = <<>> THEN <<>>
    ELSE IF s[1].k = "end" THEN <<s[1].v>>
    ELSE FirstSilenceEnd(Tail(s))

\* new_start = max(silence_end_time - 0.3, 0)
NewStartNoClamp(t) == t - PreserveTenths
NewStart(t) == Max(t - PreserveTenths, 0)

SilInit ==
    /\ sPc = "detect"
    /\ stream \in Streams
    /\ staleTemp \in BOOLEAN
    /\ fs = [input_file |-> Orig,
             temp_file |-> IF staleTemp THEN Stale ELSE Absent]
    /\ silence_end_time = <<>>
    /\ new_start = <<>>
    /\ trimResult = "none"

\* The detection run cannot be started: subprocess.run raises.
sil_detect_raises ==
    /\ sPc = "detect"
    /\ sPc' = "raised"
    /\ UNCHANGED <<stream, staleTemp, fs, silence_end_time, new_start,
                   trimResult, runVars, moreVars, xferVars, covVars>>

\* The detection run and the parse of its stderr; without a value the input
\* path is returned.
sil_detect ==
    /\ sPc = "detect"
    /\ LET t == FirstSilenceEnd(stream)
       IN /\ silence_end_time' = t
          /\ IF t = <<>>
             THEN /\ sPc' = "returned"
                  /\ UNCHANGED new_start
             ELSE /\ new_start' = <<NewStart(t[1])>>
                  /\ sPc' = "trim"
    /\ UNCHANGED <<stream, staleTemp, fs, trimResult, runVars, moreVars, xferVars,
                   covVars>>

\* subprocess.run(trim_cmd, check=True) succeeds: temp_file holds the input
\* from new_start on.
sil_trim_ok ==
    /\ sPc = "trim"
    /\ fs' = [fs EXCEPT !.temp_file = Trimmed(new_start[1])]
    /\ trimResult' = "ok"
    /\ sPc' = "remove"
    /\ UNCHANGED <<stream, staleTemp, silence_end_time, new_start, runVars, moreVars,
                   xferVars, covVars>>

\* Where remove_silence goes on after a trim invocation that failed:
\* check=True raises CalledProcessError.
AfterTrimFailureIgnored == "remove"
AfterTrimFailure == "raised"

\* The trim invocation fails, before or after it wrote part of temp_file.
sil_trim_fails ==
    /\ sPc = "trim"
    /\ \E wrote \in BOOLEAN :
          fs' = [fs EXCEPT !.temp_file = IF wrote THEN Partial ELSE @]
    /\ trimResult' = "failed"
    /\ sPc' = AfterTrimFailure
    /\ UNCHANGED <<stream, staleTemp, silence_end_time, new_start, runVars, moreVars,
                   xferVars, covVars>>

\* os.remove(input_file)
sil_remove ==
    /\ sPc = "remove"
    /\ fs' = [fs EXCEPT !.input_file = Absent]
    /\ sPc' = "rename"
    /\ UNCHANGED <<stream, staleTemp, silence_end_time, new_start, trimResult,
                   runVars, moreVars, xferVars, covVars>>

\* os.rename(temp_file, input_file); it raises if temp_file does not exist.
sil_rename ==
    /\ sPc = "rename"
    /\ IF fs.temp_file = Absent
       THEN /\ sPc' = "raised"
            /\ UNCHANGED fs
       ELSE /\ fs' = [input_file |-> fs.temp_file, temp_file |-> Absent]
            /\ sPc' = "returned"
    /\ UNCHANGED <<stream, staleTemp, silence_end_time, new_start, trimResult,
                   runVars, moreVars, xferVars, covVars>>

SilenceNext ==
    \/ sil_detect_raises
    \/ sil_detect
    \/ sil_trim_ok
    \/ sil_trim_fails
    \/ sil_remove
    \/ sil_rename

SilenceInit == SilInit /\ RunIdle /\ XferIdle /\ CovIdle /\ MoreIdle

SpecSilence == SilenceInit /\ [][SilenceNext]_vars

\* C7: if the trim invocation fails, input_file still holds the original;
\* the original is removed or replaced only after the trim invocation has
\* produced temp_file.
C7_FailedTrimKeepsOriginal ==
    /\ trimResult = "failed" => fs.input_file = Orig
    /\ fs.input_file # Orig => trimResult = "ok"

\* The trim invocation failed after writing part of temp_file.
C7_Witness ==
    /\ trimResult = "failed"
    /\ sPc = "raised"
    /\ fs.temp_file = Partial

\* The lines of the stream that are silence_end markers: "silence_end: <number>".
Markers == {k \in DOMAIN stream : stream[k].k = "end"}
FirstMarker == CHOOSE k \in Markers : \A j \in Markers : k <= j

\* C8: with t the value of the first silence_end marker of the stream, the
\* trim starts at max(t - 0.3, 0) and the file that replaces the input starts
\* there; with no marker the input path is returned, the file is unchanged and
\* there is no trim invocation and no replacement.
C8_TrimStart ==
    sPc \notin {"detect", "raised"} =>
        IF Markers = {}
        THEN /\ sPc = "returned"
             /\ trimResult = "none"
             /\ fs = [input_file |-> Orig,
                      temp_file |-> IF staleTemp THEN Stale ELSE Absent]
        ELSE LET t == stream[FirstMarker].v
                 start == IF t - PreserveTenths >= 0 THEN t - PreserveTenths ELSE 0
             IN /\ new_start = <<start>>
                /\ trimResult = "ok" =>
                      \/ fs.temp_file = Trimmed(start) /\ sPc \in {"remove", "rename"}
                      \/ fs.input_file = Trimmed(start) /\ sPc = "returned"

\* A stream whose first marker is not its only one and comes after a line that
\* does not parse, trimmed and swapped.
C8_Witness ==
    /\ sPc = "returned"
    /\ Cardinality(Markers) >= 2
    /\ \E k \in DOMAIN stream : stream[k].k = "bad" /\ k < FirstMarker
    /\ stream[FirstMarker].v > PreserveTenths
    /\ fs.input_file = Trimmed(stream[FirstMarker].v - PreserveTenths)

\* C17: in every state of a replacement another worker or a crash can
\* observe, the replaced path holds the complete old file or the complete new
\* one, never no file.
C17_AtomicReplace ==
    sPc # "idle" => fs.input_file.k \in {"orig", "trimmed"}

\* ============================================================== SpecCover
\* One call of lookup_improved_cover_art(artist, title):
\* lookup_cover_art_itunes(...) or lookup_cover_art_youtube(...).
\* A result is <<>> (None) or <<[cover |-> ..., album |-> ...]>>.

\* What provider A answers: requests.get raises or returns a status; the JSON
\* body's resultCount; whether results[0] has artworkUrl100 and
\* collectionName; the fetch of the high-resolution artwork raises or returns
\* content (which may be empty: the status of that response is not looked at).
ItunesAnswers ==
    [get : {"raises", "200", "404"},
     resultCount : {0, 1},
     artworkUrl100 : BOOLEAN,
     art : {"raises", "empty", "itunes-art"},
     collectionName : {None, "album"}]

\* lookup_cover_art_itunes
lookup_cover_art_itunes(a) ==
    IF a.get = "raises" THEN <<>>
    ELSE IF a.get # "200" THEN <<>>
    ELSE IF ~(a.resultCount > 0) THEN <<>>
    ELSE IF ~a.artworkUrl100 THEN <<>>
    ELSE IF a.art = "raises" THEN <<>>
    ELSE <<[cover |-> a.art, album |-> a.collectionName]>>

\* An entry of provider B's search: whether its title contains "audio", and
\* its thumbnail: none that can be fetched (get_highres_youtube_thumbnail
\* returns None or empty content), bytes that are no image (Image.open
\* raises), or an image of a width and a height.
Thumbs ==
    {[k |-> "none", w |-> 0, h |-> 0], [k |-> "notimage", w |-> 0, h |-> 0],
     [k |-> "image", w |-> 480, h |-> 480], [k |-> "image", w |-> 480, h |-> 471],
     [k |-> "image", w |-> 480, h |-> 470]}

Entries == [audio : BOOLEAN, thumb : Thumbs]

YoutubeAnswers ==
    [raises : BOOLEAN,
     entries : UNION {[1..n -> Entries] : n \in 0..MaxResults}]

Abs(x) == IF x >= 0 THEN x ELSE 0 - x

\* abs(img.size[0] - img.size[1]) < 10
IsSquareLoose(t) == Abs(t.w - t.h) <= SquareTolerance
IsSquare(t) == Abs(t.w - t.h) < SquareTolerance

\* The cover of entry k is named by k.
CoverOf(k) == <<[cover |-> <<"youtube", k>>, album |-> None]>>

\* The loop of lookup_cover_art_youtube from entry k on, with the fallback so
\* far (0: none): [ret |-> the entry whose cover is returned (0: leave the loop
\* without), raised |-> Image.open raised, fallback |-> ...].
RECURSIVE YoutubeLoop(_, _, _)
YoutubeLoop(es, k, fallback) ==
    IF k > Len(es) THEN [ret |-> 0, raised |-> FALSE, fallback |-> fallback]
    ELSE IF ~es[k].audio \/ es[k].thumb.k = "none"
         THEN YoutubeLoop(es, k + 1, fallback)
    ELSE IF es[k].thumb.k = "notimage"
         THEN [ret |-> 0, raised |-> TRUE, fallback |-> fallback]
    ELSE IF IsSquare(es[k].thumb)
         THEN [ret |-> k, raised |-> FALSE, fallback |-> fallback]
    ELSE YoutubeLoop(es, k + 1, IF fallback = 0 THEN k ELSE fallback)

\* lookup_cover_art_youtube
lookup_cover_art_youtube(y) ==
    IF y.raises THEN <<>>
    ELSE IF y.entries = <<>> THEN <<>>
    ELSE LET r == YoutubeLoop(y.entries, 1, 0)
         IN IF r.raised THEN <<>>
            ELSE IF r.ret # 0 THEN CoverOf(r.ret)
            ELSE IF r.fallback # 0 THEN CoverOf(r.fallback)
            ELSE IF y.entries[1].thumb.k # "none" THEN CoverOf(1)
            ELSE <<>>

\* Python's truth value of what a provider returns: None is false, the
\* dictionary with its two keys is true whatever they hold.
TruthyIfCover(r) == r # <<>> /\ r[1].cover # "empty"
Truthy(r) == r # <<>>

CovInit ==
    /\ cPc = "itunes"
    /\ itunes \in ItunesAnswers
    /\ youtube \in YoutubeAnswers
    /\ cResult = <<>>
    /\ cYoutubeCalled = FALSE

\* An exception is raised inside provider A: by the search request or by the
\* fetch of the artwork.
ItunesRaises(a) ==
    \/ a.get = "raises"
    \/ /\ a.get = "200"
       /\ a.resultCount > 0
       /\ a.artworkUrl100
       /\ a.art = "raises"

\* An exception is raised inside provider B: by the search or by Image.open on
\* a fetched thumbnail.
YoutubeRaises(y) ==
    \/ y.raises
    \/ /\ y.entries # <<>>
       /\ YoutubeLoop(y.entries, 1, 0).raised

\* Whether an exception raised inside a provider leaves the provider: the body
\* of each provider is inside "try: ... except Exception", which logs a warning
\* and falls through to "return None".
PropagatesUncaught(raised) == raised
Propagates(raised) == FALSE

\* The left operand of "or".
cov_itunes ==
    /\ cPc = "itunes"
    /\ IF Propagates(ItunesRaises(itunes))
       THEN /\ cPc' = "raised"
            /\ UNCHANGED cResult
       ELSE LET r == lookup_cover_art_itunes(itunes)
            IN IF Truthy(r)
               THEN /\ cResult' = r
                    /\ cPc' = "returned"
               ELSE /\ cPc' = "youtube"
                    /\ UNCHANGED cResult
    /\ UNCHANGED <<itunes, youtube, cYoutubeCalled, runVars, moreVars, xferVars, silVars>>

\* The right operand, evaluated when the left one is falsy.
cov_youtube ==
    /\ cPc = "youtube"
    /\ cYoutubeCalled' = TRUE
    /\ IF Propagates(YoutubeRaises(youtube))
       THEN /\ cPc' = "raised"
            /\ UNCHANGED cResult
       ELSE /\ cResult' = lookup_cover_art_youtube(youtube)
            /\ cPc' = "returned"
    /\ UNCHANGED <<itunes, youtube, runVars, moreVars, xferVars, silVars>>

CoverNext ==
    \/ cov_itunes
    \/ cov_youtube

CoverInit == CovInit /\ RunIdle /\ XferIdle /\ SilIdle /\ MoreIdle

SpecCover == CoverInit /\ [][CoverNext]_vars

\* Provider A yields a match: the search answers 200 with a result that has
\* an artwork URL, and the artwork is fetched.
ItunesMatch ==
    /\ itunes.get = "200"
    /\ itunes.resultCount > 0
    /\ itunes.artworkUrl100
    /\ itunes.art # "raises"

\* C10: whenever provider A yields a match, lookup_improved_cover_art returns
\* provider A's result and provider B is not consulted, whatever provider B
\* would answer.
C10_ItunesFirst ==
    (ItunesMatch /\ cPc # "itunes") =>
        /\ cPc = "returned"
        /\ cResult = <<[cover |-> itunes.art, album |-> itunes.collectionName]>>
        /\ ~cYoutubeCalled

\* Provider A matched (with empty artwork content) and provider B would have
\* returned a cover of its own.
C10_Witness ==
    /\ cPc = "returned"
    /\ ItunesMatch
    /\ itunes.art = "empty"
    /\ lookup_cover_art_youtube(youtube) # <<>>

\* C11: an exception raised inside provider A or provider B never leaves
\* lookup_improved_cover_art; after provider A raised, provider B is consulted
\* and its answer is the result; when both providers yield nothing the result
\* is None.
C11_ProviderErrorsSwallowed ==
    /\ cPc # "raised"
    /\ (cPc = "returned" /\ ItunesRaises(itunes)) =>
          /\ cYoutubeCalled
          /\ cResult = lookup_cover_art_youtube(youtube)
    /\ (cPc = "returned" /\ YoutubeRaises(youtube) /\ cYoutubeCalled) =>
          cResult = <<>>
    /\ ( /\ cPc = "returned"
         /\ lookup_cover_art_itunes(itunes) = <<>>
         /\ lookup_cover_art_youtube(youtube) = <<>> ) => cResult = <<>>

\* Provider A raised while fetching the artwork, provider B was consulted and
\* raised on a thumbnail that is no image, after an earlier entry had given a
\* fallback cover.
C11_Witness ==
    /\ cPc = "returned"
    /\ itunes.get = "200"
    /\ ItunesRaises(itunes)
    /\ cYoutubeCalled
    /\ ~youtube.raises
    /\ YoutubeRaises(youtube)
    /\ YoutubeLoop(youtube.entries, 1, 0).fallback # 0
    /\ cResult = <<>>

\* Width and height less than the tolerance apart.
NearlySquare(t) ==
    t.w - t.h < SquareTolerance /\ t.h - t.w < SquareTolerance

\* The results of provider B by what the claim ranks them on.
AudioSquare ==
    {k \in DOMAIN youtube.entries :
        /\ youtube.entries[k].audio
        /\ youtube.entries[k].thumb.k = "image"
        /\ NearlySquare(youtube.entries[k].thumb)}
AudioUsable ==
    {k \in DOMAIN youtube.entries :
        youtube.entries[k].audio /\ youtube.entries[k].thumb.k = "image"}
Least(S) == CHOOSE k \in S : \A j \in S : k <= j

\* What the ranking gives for the list of provider B.
Preferred ==
    IF AudioSquare # {} THEN CoverOf(Least(AudioSquare))
    ELSE IF AudioUsable # {} THEN CoverOf(Least(AudioUsable))
    ELSE IF youtube.entries # <<>> /\ youtube.entries[1].thumb.k # "none"
         THEN CoverOf(1)
    ELSE <<>>

====
